---- MODULE Spec2Model ----
(***************************************************************************)
(* Model of AcidentesStreamlit.py: a Streamlit script that is re-executed  *)
(* from top to bottom on every widget interaction.  One script run loads   *)
(* the accident table, reads the three sidebar multiselects, filters the   *)
(* table, computes every aggregate shown in the four tabs and serialises   *)
(* the filtered view for download.                                         *)
(*                                                                         *)
(* A DataFrame is [columns |-> set of column names, rows |-> sequence of   *)
(* records].  A missing value is "" in a text column (pd.read_csv reads an *)
(* empty field as missing) and NaN in a numeric column.  A date is the     *)
(* triple <<year, month, day>> of the fields of 'YYYY-MM-DD', a time the   *)
(* triple <<hour, minute, second>> of 'HH:MM:SS'.                          *)
(***************************************************************************)
EXTENDS Integers, Sequences, FiniteSets, TLC

VARIABLES
    fileOk,                     \* acidentes2024.csv.gz can be opened and parsed
    data,                       \* the DataFrame parsed from the file
    loadRaises,                 \* load_data() raises an Exception
    cache,                      \* st.cache_data entry of load_data: <<>> or <<df>>
    uploaded_file,              \* st.file_uploader value: <<>> or <<df>>
    ano_selecionado,            \* sidebar multiselect: years
    uf_selecionada,             \* sidebar multiselect: states
    tipo_acidente_selecionado,  \* sidebar multiselect: accident types
    status,                     \* how the last script run ended
    messages,                   \* st.error / st.info / uploader elements shown
    df,                         \* the object bound to df at the end of the run
    filtered_df,                \* the object bound to filtered_df at the end
    out                         \* the outputs the last run produced, by name

vars == <<fileOk, data, loadRaises, cache, uploaded_file, ano_selecionado,
          uf_selecionada, tipo_acidente_selecionado, status, messages, df,
          filtered_df, out>>

(***************************************************************************)
(* Bounds of the model.                                                    *)
(***************************************************************************)
MaxRows == 2        \* rows of a freely chosen input table
NCat == 11          \* distinct categories of the many-category input tables
MaxSel == 2         \* values a user puts in one multiselect

(***************************************************************************)
(* Generic helpers.                                                        *)
(***************************************************************************)
NaN == -999999

SeqsUpTo(S, n) == UNION {[1..k -> S] : k \in 0..n}

Range(s) == {s[i] : i \in DOMAIN s}

Min2(a, b) == IF a <= b THEN a ELSE b

\* The sequence f, every element evaluated once
Eager(f) == f \o <<>>

\* Stable ascending sort by an integer key (list.sort / Series.sort_values).
SortAsc(s, Key(_)) ==
    LET t == Eager(s)
        n == Len(t)
        key == Eager([i \in 1..n |-> Key(t[i])])
        rank == Eager([i \in 1..n |->
                    Cardinality({j \in 1..n : \/ key[j] < key[i]
                                              \/ (key[j] = key[i] /\ j < i)}) + 1])
    IN Eager([p \in 1..n |-> t[CHOOSE i \in 1..n : rank[i] = p]])

\* The elements of s that satisfy Keep, in order (boolean-mask indexing).
Mask(s, Keep(_)) == SelectSeq(s, Keep)

\* Series.unique(): the distinct values in order of first appearance.
Unique(s) ==
    LET t == Eager(s)
        first == {i \in DOMAIN t : \A j \in 1..(i - 1) : t[j] # t[i]}
        nth(p) == CHOOSE i \in first : Cardinality({j \in first : j < i}) = p - 1
    IN Eager([p \in 1..Cardinality(first) |-> t[nth(p)]])

Count(s, v) == Cardinality({i \in DOMAIN s : s[i] = v})

RECURSIVE SumSeq(_)
SumSeq(s) == IF s = <<>> THEN 0 ELSE Head(s) + SumSeq(Tail(s))

\* Series.head(n) / list[:n]
HeadN(s, n) == SubSeq(s, 1, Min2(n, Len(s)))

(***************************************************************************)
(* pandas operations used by the script.                                   *)
(***************************************************************************)
NaT == <<>>

\* df[c] as a sequence of values
Col(rows, c) == Eager([i \in DOMAIN rows |-> rows[i][c]])

\* df[c] = values: the column is added to, or replaced in, every row
SetCol(frame, c, values) ==
    [columns |-> frame.columns \cup {c},
     rows |-> Eager([i \in DOMAIN frame.rows |-> (c :> values[i]) @@ frame.rows[i]])]

DaysIn(y, m) ==
    IF m = 2 THEN (IF (y % 4 = 0 /\ y % 100 # 0) \/ y % 400 = 0 THEN 29 ELSE 28)
    ELSE IF m \in {4, 6, 9, 11} THEN 30 ELSE 31

\* pd.to_datetime(x, format='%Y-%m-%d', errors='coerce')
ToDate(d) ==
    IF Len(d) = 3 /\ d[2] \in 1..12 /\ d[3] \in 1..DaysIn(d[1], d[2])
    THEN d ELSE NaT

\* pd.to_datetime(x, format='%H:%M:%S', errors='coerce')
ToTime(t) ==
    IF Len(t) = 3 /\ t[1] \in 0..23 /\ t[2] \in 0..59 /\ t[3] \in 0..59
    THEN t ELSE NaT

\* .dt.year, .dt.month, .dt.hour: NaN on NaT
DtField(d, k) == IF d = NaT THEN NaN ELSE d[k]

MonthNames == <<"January", "February", "March", "April", "May", "June", "July",
                "August", "September", "October", "November", "December">>

\* .dt.month_name()
MonthName(d) == IF d = NaT THEN "" ELSE MonthNames[d[2]]

\* pd.to_numeric(x, errors='coerce') on a text field given as the sequence of
\* the numbers it holds: exactly one number is numeric text
ToNumeric(x) == IF Len(x) = 1 THEN x[1] ELSE NaN

\* Series.dropna() for a column whose missing value is null
DropNa(s, null) == Mask(s, LAMBDA x : x # null)

\* Series.value_counts(): one entry per distinct non-missing value, most
\* frequent first; equal counts stay in order of first appearance
ValueCounts(s, null) ==
    LET vals == DropNa(s, null)
        uniq == Unique(vals)
    IN SortAsc([i \in DOMAIN uniq |-> [k |-> uniq[i], n |-> Count(vals, uniq[i])]],
               LAMBDA e : 0 - e.n)

\* Series.value_counts() of a categorical column: every category has an
\* entry, also with count 0
CatValueCounts(s, labels) ==
    SortAsc([i \in DOMAIN labels |-> [k |-> labels[i], n |-> Count(s, labels[i])]],
            LAMBDA e : 0 - e.n)

\* value_counts().reindex(order).fillna(0): one entry per label of order
ReindexFill0(vc, order) ==
    LET have == Range(vc)
    IN Eager([i \in DOMAIN order |->
                [k |-> order[i],
                 n |-> IF \E e \in have : e.k = order[i]
                       THEN (CHOOSE e \in have : e.k = order[i]).n
                       ELSE 0]])

\* value_counts().sort_index() of a numeric column
SortIndex(vc) == SortAsc(vc, LAMBDA e : e.k)

\* isin with the test inverted
IsInInverted(x, selection) == x \notin selection

\* Series.isin(selection); the selections hold no missing value
IsIn(x, selection) == x \in selection

\* pd.cut(x, bins, labels): bins are open on the left and closed on the
\* right (right=True, include_lowest=False); a value in no bin is missing
Cut(x, bins, labels) ==
    IF x # NaN /\ \E i \in DOMAIN labels : bins[i] < x /\ x <= bins[i + 1]
    THEN labels[CHOOSE i \in DOMAIN labels : bins[i] < x /\ x <= bins[i + 1]]
    ELSE ""

\* Series.sum() skips missing values
SumCol(s) == SumSeq(DropNa(s, NaN))

\* Series.max() skips missing values; NaN when none is left
MaxCol(s) ==
    LET vals == Range(DropNa(s, NaN))
    IN IF vals = {} THEN NaN ELSE CHOOSE x \in vals : \A y \in vals : y <= x

\* a - b on numeric columns
Sub(a, b) == IF a = NaN \/ b = NaN THEN NaN ELSE a - b

(***************************************************************************)
(* Loading (lines 18-54).                                                  *)
(***************************************************************************)
EmptyFrame == [columns |-> {}, rows |-> <<>>]

\* lines 28-31 and 48-51: data, ano, mes, mes_nome derived from data_inversa
DeriveDateColumns(frame) ==
    LET date == [i \in DOMAIN frame.rows |-> ToDate(frame.rows[i].data_inversa)]
        f1 == SetCol(frame, "data", date)
        f2 == SetCol(f1, "ano", [i \in DOMAIN date |-> DtField(date[i], 1)])
        f3 == SetCol(f2, "mes", [i \in DOMAIN date |-> DtField(date[i], 2)])
    IN SetCol(f3, "mes_nome", [i \in DOMAIN date |-> MonthName(date[i])])

\* One execution of lines 18-54.  go says whether the script continues to
\* the dashboard; st.stop() ends the run, an exception no handler catches
\* ends it with Streamlit's exception box.
LoadStage(upload) ==
    IF ~fileOk THEN
        \* line 18: gzip.open raises outside every try block
        [go |-> FALSE, status |-> "load_crashed", messages |-> <<"exception">>,
         df |-> EmptyFrame, cache |-> cache]
    ELSE IF cache # <<>> THEN
        \* st.cache_data returns a copy of the stored result
        [go |-> TRUE, status |-> "loaded", messages |-> <<"success">>,
         df |-> cache[1], cache |-> cache]
    ELSE IF loadRaises THEN
        \* lines 41-54
        IF upload = <<>> THEN
            [go |-> FALSE, status |-> "stopped",
             messages |-> <<"error: Erro ao carregar os dados", "info: upload",
                            "file_uploader">>,
             df |-> EmptyFrame, cache |-> cache]
        ELSE IF "data_inversa" \notin upload[1].columns THEN
            \* line 48: KeyError
            [go |-> FALSE, status |-> "load_crashed",
             messages |-> <<"error: Erro ao carregar os dados", "info: upload",
                            "file_uploader", "exception">>,
             df |-> EmptyFrame, cache |-> cache]
        ELSE
            [go |-> TRUE, status |-> "loaded",
             messages |-> <<"error: Erro ao carregar os dados", "info: upload",
                            "file_uploader", "success">>,
             df |-> DeriveDateColumns(upload[1]), cache |-> cache]
    ELSE IF "data_inversa" \notin data.columns THEN
        \* lines 33-34: st.stop() raises a script-control exception, which
        \* except Exception does not catch
        [go |-> FALSE, status |-> "stopped",
         messages |-> <<"error: A coluna 'data_inversa' nao foi encontrada">>,
         df |-> EmptyFrame, cache |-> cache]
    ELSE
        [go |-> TRUE, status |-> "loaded", messages |-> <<"success">>,
         df |-> DeriveDateColumns(data),
         cache |-> <<DeriveDateColumns(data)>>]

(***************************************************************************)
(* Sidebar (lines 63-73).                                                  *)
(***************************************************************************)
anos_disponiveis(frame) ==
    SortAsc(Unique(DropNa(Col(frame.rows, "ano"), NaN)), LAMBDA x : x)

\* sorted(...) of text values: only the set of options is modelled
ufs_disponiveis(frame) == Range(DropNa(Col(frame.rows, "uf"), ""))

tipos_acidentes(frame) == Range(DropNa(Col(frame.rows, "tipo_acidente"), ""))

\* default=anos_disponiveis[-1:]
DefaultAno(frame) ==
    LET a == anos_disponiveis(frame)
    IN IF a = <<>> THEN {} ELSE {a[Len(a)]}

(***************************************************************************)
(* Filtering (lines 75-83).                                                *)
(***************************************************************************)
\* filtered_df = df without .copy(): the same object under a second name
DfCopyAlias(ref) == ref

\* df.copy(): the name of the object the copy is; "df" is the base object
DfCopy(ref) == "copy"

\* The heap after lines 76-83 and the object filtered_df names.  Indexing
\* with a boolean mask makes a new object.
FilterStage(frame, selA, selU, selT) ==
    LET cp == DfCopy("df")
        h0 == (cp :> frame) @@ ("df" :> frame)
        r0 == frame.rows
        r1 == IF selA # {} THEN Mask(r0, LAMBDA r : IsIn(r.ano, selA)) ELSE r0
        r2 == IF selU # {} THEN Mask(r1, LAMBDA r : IsIn(r.uf, selU)) ELSE r1
        r3 == IF selT # {} THEN Mask(r2, LAMBDA r : IsIn(r.tipo_acidente, selT))
              ELSE r2
        indexed == selA # {} \/ selU # {} \/ selT # {}
    IN IF indexed
       THEN [heap |-> ("view" :> [columns |-> frame.columns, rows |-> r3]) @@ h0,
             ref |-> "view"]
       ELSE [heap |-> h0, ref |-> cp]

(***************************************************************************)
(* Summary metrics (lines 89-103).  v is the sequence of rows of the view. *)
(***************************************************************************)
total_acidentes(v) == Cardinality(Range(DropNa(Col(v, "id"), NaN)))

total_mortos(v) == SumCol(Col(v, "mortos"))

total_feridos(v) == SumCol(Col(v, "feridos_leves")) + SumCol(Col(v, "feridos_graves"))

\* line 102 without its "if not filtered_df.empty" guard
IdxMaxRaisesUnguarded(v) == ValueCounts(Col(v, "uf"), "") = <<>>

\* line 102: idxmax() of an empty value_counts() raises ValueError
IdxMaxRaises(v) == v # <<>> /\ ValueCounts(Col(v, "uf"), "") = <<>>

estado_mais_acidentes(v) ==
    IF v # <<>> /\ ~IdxMaxRaises(v) THEN ValueCounts(Col(v, "uf"), "")[1].k
    ELSE "N/A"

(***************************************************************************)
(* Tab 1 (lines 108-149).                                                  *)
(***************************************************************************)
\* groupby(['ano', 'mes']).size(): one entry per (ano, mes) present, rows
\* with a missing key left out, ordered by key
acidentes_por_mes(v) ==
    LET keyed == Mask(v, LAMBDA r : r.ano # NaN /\ r.mes # NaN)
        keys == Unique([i \in DOMAIN keyed |-> <<keyed[i].ano, keyed[i].mes>>])
    IN SortAsc([i \in DOMAIN keys |->
                  [ano |-> keys[i][1], mes |-> keys[i][2],
                   contagem |-> Cardinality({j \in DOMAIN keyed :
                                   <<keyed[j].ano, keyed[j].mes>> = keys[i]})]],
               LAMBDA e : e.ano * 100 + e.mes)

dias_ordem == <<"domingo", "segunda-feira", "terça-feira", "quarta-feira",
                "quinta-feira", "sexta-feira", "sábado">>

\* line 130 without .reindex(dias_ordem).fillna(0)
dias_df_NoReindex(v) == ValueCounts(Col(v, "dia_semana"), "")

dias_df(v) == ReindexFill0(ValueCounts(Col(v, "dia_semana"), ""), dias_ordem)

\* line 141: the values written to filtered_df['hora']
hora(v) == Eager([i \in DOMAIN v |-> DtField(ToTime(v[i].horario), 1)])

\* line 142, on the view that holds the hora column
horas_df(v) == SortIndex(ValueCounts(Col(v, "hora"), NaN))

(***************************************************************************)
(* Tab 2 (lines 151-201).                                                  *)
(***************************************************************************)
\* line 160; the sample of 5000 points (lines 162-163) needs more rows than
\* the tables of this model hold
map_data(v) ==
    LET ok == Mask(v, LAMBDA r : r.latitude # NaN /\ r.longitude # NaN)
    IN Eager([i \in DOMAIN ok |-> [latitude |-> ok[i].latitude,
                                    longitude |-> ok[i].longitude]])

\* head(10) of the counts in order of first appearance (sort=False)
Top10Unsorted(v, c) ==
    HeadN([i \in DOMAIN Unique(DropNa(Col(v, c), "")) |->
             [k |-> Unique(DropNa(Col(v, c), ""))[i],
              n |-> Count(Col(v, c), Unique(DropNa(Col(v, c), ""))[i])]], 10)

\* value_counts().head(10) of a text column and of a numeric one
Top10(v, c) == HeadN(ValueCounts(Col(v, c), ""), 10)

Top10Num(v, c) == HeadN(ValueCounts(Col(v, c), NaN), 10)

(***************************************************************************)
(* Tab 3 (lines 203-262).                                                  *)
(***************************************************************************)
\* value_counts() of the distinct values (.unique() put before it)
DistributionOfUnique(v, c) == ValueCounts(Unique(Col(v, c)), "")

\* value_counts() of a text column, every category kept
Distribution(v, c) == ValueCounts(Col(v, c), "")

\* pd.crosstab(rows, cols): the rows where either value is missing are left
\* out; index and columns are the values that remain
CrossTab(v, r, c) ==
    LET both == Mask(v, LAMBDA x : x[r] # "" /\ x[c] # "")
        index == Range(Col(both, r))
        columns == Range(Col(both, c))
    IN [index |-> index, columns |-> columns,
        cell |-> [p \in index \X columns |->
                    Cardinality({i \in DOMAIN both :
                                   both[i][r] = p[1] /\ both[i][c] = p[2]})]]

\* line 254
top5_tipos(v) ==
    LET vc == HeadN(ValueCounts(Col(v, "tipo_acidente"), ""), 5)
    IN Eager([i \in DOMAIN vc |-> vc[i].k])

\* line 255: table[list of labels] raises KeyError when a label is not a
\* column of the table
SelectRaises(table, labels) == \E t \in Range(labels) : t \notin table.columns

\* line 255 when it does not raise: the listed columns, in the list's order
SelectColumns(table, labels) ==
    [index |-> table.index, columns |-> labels,
     cell |-> [p \in table.index \X Range(labels) |-> table.cell[p]]]

cross_fase_tipo_filtered(v) ==
    SelectColumns(CrossTab(v, "fase_dia", "tipo_acidente"), top5_tipos(v))

(***************************************************************************)
(* Tab 4 (lines 264-344).                                                  *)
(***************************************************************************)
idade_bins == <<0, 18, 25, 35, 45, 60, 100>>

idade_labels == <<"0-18", "19-25", "26-35", "36-45", "46-60", "60+">>

veiculo_bins == <<0, 5, 10, 15, 20, 30, 50>>

veiculo_labels == <<"0-5 anos", "6-10 anos", "11-15 anos", "16-20 anos",
                    "21-30 anos", "31+ anos">>

\* lines 283-287: the values written to filtered_df['faixa_etaria']
faixa_etaria(v) ==
    Eager([i \in DOMAIN v |-> Cut(v[i].idade, idade_bins, idade_labels)])

\* line 289, on the view that holds the faixa_etaria column
faixa_etaria_df(v) == CatValueCounts(Col(v, "faixa_etaria"), idade_labels)

\* lines 316-317: the values written to filtered_df['idade_veiculo']
idade_veiculo(v) ==
    LET anos_max == MaxCol(Col(v, "ano"))
    IN Eager([i \in DOMAIN v |-> Sub(anos_max, v[i].ano_fabricacao_veiculo)])

\* line 320, on the view that holds the idade_veiculo column
idade_valida(v) ==
    Mask(v, LAMBDA r : r.idade_veiculo # NaN /\ r.idade_veiculo >= 0
                       /\ r.idade_veiculo <= 50)

\* lines 323-327: the values written to idade_valida['faixa_idade_veiculo']
faixa_idade_veiculo(v) ==
    LET valid == idade_valida(v)
    IN Eager([i \in DOMAIN valid |->
                Cut(valid[i].idade_veiculo, veiculo_bins, veiculo_labels)])

\* line 329
idade_veiculo_df(v) == CatValueCounts(faixa_idade_veiculo(v), veiculo_labels)

\* line 350: the exported table; the text encoding of a cell is not modelled
ToCsv(frame) == [header |-> frame.columns, records |-> frame.rows]

(***************************************************************************)
(* The dashboard part of one script run (lines 56-356).                    *)
(***************************************************************************)
OptionalColumns == {"br", "sexo", "idade", "tipo_veiculo",
                    "ano_fabricacao_veiculo", "estado_fisico"}

\* The rows of the object filtered_df names; st is [heap, ref]
Rows(st) == st.heap[st.ref].rows

\* filtered_df[c] = values, on the object filtered_df names
WriteCol(st, c, values) ==
    [heap |-> [st.heap EXCEPT ![st.ref] = SetCol(@, c, values)], ref |-> st.ref]

\* line 141
WriteHora(st) == WriteCol(st, "hora", hora(Rows(st)))

\* lines 158-159
WriteCoords(st) ==
    WriteCol(WriteCol(st, "latitude",
                      [i \in DOMAIN Rows(st) |-> ToNumeric(Rows(st)[i].latitude)]),
             "longitude",
             [i \in DOMAIN Rows(st) |-> ToNumeric(Rows(st)[i].longitude)])

\* lines 281-287
WriteFaixaEtaria(st) ==
    IF "idade" \in st.heap[st.ref].columns
    THEN WriteCol(st, "faixa_etaria", faixa_etaria(Rows(st))) ELSE st

\* lines 314-317
WriteIdadeVeiculo(st) ==
    IF "ano_fabricacao_veiculo" \in st.heap[st.ref].columns
    THEN WriteCol(st, "idade_veiculo", idade_veiculo(Rows(st))) ELSE st

\* {n} when the table has column c (the script's "if c in filtered_df.columns")
IfColumn(cols, c, n) == IF c \in cols THEN {n} ELSE {}

\* The outputs a run produces up to line 248
OutputsTo248(cols) ==
    {"total_acidentes", "total_mortos", "total_feridos", "estado_mais_acidentes",
     "acidentes_por_mes", "dias_df", "horas_df", "map_data", "top_ufs",
     "top_municipios", "top_causas", "top_tipos", "class_acidentes", "cond_meteo"}
    \cup IfColumn(cols, "br", "top_brs")

\* The outputs of a run that reaches the end of the script
OutputsAll(cols) ==
    OutputsTo248(cols) \cup {"cross_fase_tipo_filtered", "csv"}
    \cup IfColumn(cols, "sexo", "sexo_df")
    \cup IfColumn(cols, "idade", "faixa_etaria_df")
    \cup IfColumn(cols, "tipo_veiculo", "veiculos_df")
    \cup IfColumn(cols, "ano_fabricacao_veiculo", "idade_veiculo_df")
    \cup IfColumn(cols, "estado_fisico", "estado_fisico_df")

\* The value of output n.  s0 is filtered_df after the filters, sB after
\* line 159 and sD after line 317
Output(n, s0, sB, sD) ==
    CASE n = "total_acidentes" -> total_acidentes(Rows(s0))
      [] n = "total_mortos" -> total_mortos(Rows(s0))
      [] n = "total_feridos" -> total_feridos(Rows(s0))
      [] n = "estado_mais_acidentes" -> estado_mais_acidentes(Rows(s0))
      [] n = "acidentes_por_mes" -> acidentes_por_mes(Rows(s0))
      [] n = "dias_df" -> dias_df(Rows(s0))
      [] n = "horas_df" -> horas_df(Rows(sB))
      [] n = "map_data" -> map_data(Rows(sB))
      [] n = "top_ufs" -> Top10(Rows(sB), "uf")
      [] n = "top_municipios" -> Top10(Rows(sB), "municipio")
      [] n = "top_brs" -> Top10Num(Rows(sB), "br")
      [] n = "top_causas" -> Top10(Rows(sB), "causa_principal")
      [] n = "top_tipos" -> Top10(Rows(sB), "tipo_acidente")
      [] n = "class_acidentes" -> Distribution(Rows(sB), "classificacao_acidente")
      [] n = "cond_meteo" -> Distribution(Rows(sB), "condicao_metereologica")
      [] n = "cross_fase_tipo_filtered" -> cross_fase_tipo_filtered(Rows(sB))
      [] n = "sexo_df" -> Distribution(Rows(sB), "sexo")
      [] n = "faixa_etaria_df" -> faixa_etaria_df(Rows(sD))
      [] n = "veiculos_df" -> Top10(Rows(sD), "tipo_veiculo")
      [] n = "idade_veiculo_df" -> idade_veiculo_df(Rows(sD))
      [] n = "estado_fisico_df" -> Distribution(Rows(sD), "estado_fisico")
      [] n = "csv" -> ToCsv(sD.heap[sD.ref])

\* How far the run gets: line 102 raises ValueError, line 255 KeyError
EndsAt(s0, sB) ==
    IF IdxMaxRaises(Rows(s0)) THEN 102
    ELSE IF SelectRaises(CrossTab(Rows(sB), "fase_dia", "tipo_acidente"),
                         top5_tipos(Rows(sB))) THEN 255
    ELSE 356

\* The run from line 85 on: its status, the objects named df and
\* filtered_df when it ends, and its outputs
Render(s0, sB, sD, end) ==
    LET last == IF end = 102 THEN s0 ELSE IF end = 255 THEN sB ELSE sD
        names == IF end = 102 THEN {"total_acidentes", "total_mortos", "total_feridos"}
                 ELSE IF end = 255 THEN OutputsTo248(s0.heap["df"].columns)
                 ELSE OutputsAll(s0.heap["df"].columns)
    IN [status |-> IF end = 356 THEN "done" ELSE "render_crashed",
        df |-> last.heap["df"],
        filtered_df |-> last.heap[last.ref],
        out |-> [n \in names |-> Output(n, s0, sB, sD)]]

RenderFrom(s0, sB) == Render(s0, sB, WriteIdadeVeiculo(WriteFaixaEtaria(sB)), EndsAt(s0, sB))

DashboardOf(s0) == RenderFrom(s0, WriteCoords(WriteHora(s0)))

Dashboard(frame, selA, selU, selT) == DashboardOf(FilterStage(frame, selA, selU, selT))

(***************************************************************************)
(* One script run.  The widgets keep their selections between runs while   *)
(* they are rendered; a run that ends before the sidebar drops them, and   *)
(* the run that renders them first gives them their defaults.              *)
(***************************************************************************)
WidgetsLive == status \in {"done", "render_crashed"}

\* What a run that ends in lines 18-54 leaves
NoDashboard(ld) ==
    [status |-> ld.status, df |-> EmptyFrame, filtered_df |-> EmptyFrame, out |-> <<>>]

ScriptRun(upload, selA, selU, selT) ==
    \E ld \in {LoadStage(upload)} :
    \E a \in {IF ~ld.go THEN {} ELSE IF WidgetsLive THEN selA ELSE DefaultAno(ld.df)} :
    \E u \in {IF ld.go /\ WidgetsLive THEN selU ELSE {}} :
    \E t \in {IF ld.go /\ WidgetsLive THEN selT ELSE {}} :
    \E r \in {IF ld.go THEN Dashboard(ld.df, a, u, t) ELSE NoDashboard(ld)} :
       /\ uploaded_file' = upload
       /\ cache' = ld.cache
       /\ UNCHANGED <<fileOk, data, loadRaises>>
       /\ ano_selecionado' = a
       /\ uf_selecionada' = u
       /\ tipo_acidente_selecionado' = t
       /\ status' = r.status
       /\ messages' = IF r.status = "render_crashed"
                      THEN Append(ld.messages, "exception") ELSE ld.messages
       /\ df' = r.df
       /\ filtered_df' = r.filtered_df
       /\ out' = r.out

(***************************************************************************)
(* Input tables.                                                           *)
(***************************************************************************)
DefaultRow ==
    [id |-> 1, data_inversa |-> <<2024, 1, 7>>, dia_semana |-> "domingo",
     horario |-> <<10, 30, 0>>, uf |-> "SP", br |-> 116,
     municipio |-> "SAO PAULO", causa_principal |-> "Velocidade Incompativel",
     tipo_acidente |-> "Tombamento",
     classificacao_acidente |-> "Com Vitimas Feridas", fase_dia |-> "Pleno dia",
     condicao_metereologica |-> "Ceu Claro", tipo_veiculo |-> "Automovel",
     ano_fabricacao_veiculo |-> 2015, estado_fisico |-> "Lesoes Leves",
     idade |-> 30, sexo |-> "Masculino", mortos |-> 0, feridos_leves |-> 1,
     feridos_graves |-> 0, latitude |-> <<-23>>, longitude |-> <<-46>>]

With(r, c, x) == (c :> x) @@ r

Frame(rows) == [columns |-> DOMAIN DefaultRow, rows |-> rows]

\* The table without the columns of drop
Without(frame, drop) ==
    [columns |-> frame.columns \ drop,
     rows |-> [i \in DOMAIN frame.rows |->
                 [c \in DOMAIN frame.rows[i] \ drop |-> frame.rows[i][c]]]]

\* Tables whose rows differ in one column
Vary(c, values) == SeqsUpTo({With(DefaultRow, c, x) : x \in values}, MaxRows)

\* Rows that differ in the three filter columns; 2024-02-30 is no date
FilterRow(k) ==
    [DefaultRow EXCEPT
        !.data_inversa = <<<<2023, 12, 31>>, <<2024, 2, 29>>, <<2024, 2, 30>>>>[(k % 3) + 1],
        !.uf = <<"SP", "RJ">>[((k \div 3) % 2) + 1],
        !.tipo_acidente = <<"Colisao traseira", "Tombamento">>[((k \div 6) % 2) + 1]]

\* The tables of at most MaxRows of these rows, the rows of one kind next
\* to each other
FilterData ==
    UNION {{[p \in 1..n |-> FilterRow(c[p])] :
               c \in {c \in [1..n -> 0..11] : \A i \in 1..(n - 1) : c[i] <= c[i + 1]}} :
           n \in 0..MaxRows}

PhaseRows ==
    {With(With(DefaultRow, "fase_dia", f), "tipo_acidente", t) :
        f \in {"Pleno dia", ""}, t \in {"Colisao traseira", "Tombamento", ""}}

ColumnData ==
    Vary("dia_semana", {"domingo", "sábado", "Domingo", ""})
    \cup Vary("horario", {<<0, 0, 0>>, <<23, 59, 59>>, <<24, 0, 0>>, <<>>})
    \cup Vary("uf", {"SP", ""})
    \cup Vary("classificacao_acidente", {"Com Vitimas Fatais", "Sem Vitimas", ""})
    \cup Vary("condicao_metereologica", {"Chuva", "Sol", ""})
    \cup Vary("sexo", {"Feminino", "Masculino", ""})
    \cup Vary("estado_fisico", {"Ileso", "Obito", ""})
    \cup Vary("mortos", {2, NaN})
    \cup Vary("id", {2, NaN})
    \cup Vary("latitude", {<<-23>>, <<>>})
    \cup SeqsUpTo(PhaseRows, MaxRows)

TiposLista == <<"Colisao traseira", "Tombamento", "Capotamento",
                "Atropelamento de Pedestre", "Colisao frontal", "Incendio">>

\* One row of each accident type, and the last type in h more rows
TipoData ==
    {[i \in 1..(Len(TiposLista) + h) |->
        With(DefaultRow, "tipo_acidente", TiposLista[Min2(i, Len(TiposLista))])] :
        h \in {0, 1}}

Municipios == <<"BRASILIA", "CURITIBA", "GUARULHOS", "SAO PAULO", "SERRA",
                "BETIM", "PALHOCA", "DUQUE DE CAXIAS", "SAO JOSE", "JOINVILLE",
                "CONTAGEM", "PORTO VELHO", "CAMPO GRANDE", "RECIFE">>

Causas == <<"Reacao tardia", "Ausencia de reacao", "Velocidade Incompativel",
            "Ingestao de alcool", "Manobra de mudanca de faixa", "Chuva",
            "Animais na Pista", "Pista Escorregadia", "Condutor Dormindo",
            "Ultrapassagem Indevida", "Demais falhas mecanicas", "Neblina",
            "Mal subito", "Curva acentuada">>

Veiculos == <<"Automovel", "Motocicleta", "Caminhonete", "Caminhao",
              "Caminhao-trator", "Onibus", "Camioneta", "Motoneta", "Bicicleta",
              "Utilitario", "Semireboque", "Micro-onibus", "Ciclomotor",
              "Reboque">>

CategoryRow(j) ==
    [DefaultRow EXCEPT !.municipio = Municipios[j], !.br = 100 + j,
                       !.causa_principal = Causas[j],
                       !.tipo_veiculo = Veiculos[j],
                       !.uf = IF j % 2 = 1 THEN "SP" ELSE "RJ"]

\* k categories in the municipio, br, causa_principal and tipo_veiculo
\* columns, one row each, followed by a second row of the last h of them
CategoryData ==
    {[i \in 1..(k + Min2(h, k)) |->
        CategoryRow(IF i <= k THEN i ELSE i - Min2(h, k))] :
        k \in 0..NCat, h \in 0..2} \ {<<>>}

\* One row; the victim is a years old and the vehicle a years older than the
\* accident
AgeData ==
    {<<[DefaultRow EXCEPT !.idade = a, !.ano_fabricacao_veiculo = 2024 - a]>> :
        a \in -1..101}
    \cup Vary("idade", {0, 18, NaN}) \cup Vary("ano_fabricacao_veiculo", {2024, NaN})

UploadFiles == {Frame(<<DefaultRow>>), Without(Frame(<<DefaultRow>>), {"data_inversa"})}

(***************************************************************************)
(* Initial states: the file the script finds, before its first run.        *)
(***************************************************************************)
\* The files every specification starts from: one that cannot be opened,
\* one without the date column, one load_data() fails on, and two without
\* the optional columns
CommonFiles ==
    {[ok |-> FALSE, raises |-> FALSE, data |-> EmptyFrame],
     [ok |-> TRUE, raises |-> FALSE,
      data |-> Without(Frame(<<DefaultRow>>), {"data_inversa"})],
     [ok |-> TRUE, raises |-> TRUE, data |-> Frame(<<DefaultRow>>)],
     [ok |-> TRUE, raises |-> FALSE, data |-> Without(Frame(<<>>), OptionalColumns)],
     [ok |-> TRUE, raises |-> FALSE,
      data |-> Without(Frame(<<DefaultRow>>), OptionalColumns)]}

Files(tables) ==
    CommonFiles \cup {[ok |-> TRUE, raises |-> FALSE, data |-> Frame(t)] : t \in tables}

InitWith(tables) ==
    /\ \E f \in Files(tables) :
          /\ fileOk = f.ok
          /\ loadRaises = f.raises
          /\ data = f.data
    /\ cache = <<>>
    /\ uploaded_file = <<>>
    /\ ano_selecionado = {}
    /\ uf_selecionada = {}
    /\ tipo_acidente_selecionado = {}
    /\ status = "init"
    /\ messages = <<>>
    /\ df = EmptyFrame
    /\ filtered_df = EmptyFrame
    /\ out = <<>>

Init == InitWith(FilterData)

InitColumns == InitWith(ColumnData)

InitTopN == InitWith(CategoryData \cup TipoData)

InitBins == InitWith(AgeData)

(***************************************************************************)
(* Actions: every one is a complete script run.                            *)
(***************************************************************************)
Selections(options) == {S \in SUBSET options : Cardinality(S) <= MaxSel}

\* The browser opens the page
FirstRun ==
    /\ status = "init"
    /\ ScriptRun(<<>>, {}, {}, {})

\* The user changes the year multiselect
ChangeAno ==
    /\ WidgetsLive
    /\ \E S \in Selections(Range(anos_disponiveis(df))) :
          /\ S # ano_selecionado
          /\ ScriptRun(uploaded_file, S, uf_selecionada, tipo_acidente_selecionado)

\* The user changes the state multiselect
ChangeUf ==
    /\ WidgetsLive
    /\ \E S \in Selections(ufs_disponiveis(df)) :
          /\ S # uf_selecionada
          /\ ScriptRun(uploaded_file, ano_selecionado, S, tipo_acidente_selecionado)

\* The user changes the accident type multiselect
ChangeTipo ==
    /\ WidgetsLive
    /\ \E S \in Selections(tipos_acidentes(df)) :
          /\ S # tipo_acidente_selecionado
          /\ ScriptRun(uploaded_file, ano_selecionado, uf_selecionada, S)

\* The user gives the uploader of line 44 a file
Upload ==
    /\ status = "stopped"
    /\ "file_uploader" \in Range(messages)
    /\ \E f \in UploadFiles :
          ScriptRun(<<f>>, {}, {}, {})

\* Any other interaction (a tab, the download button, a reload of the page's
\* session) runs the script again with the widgets as they are
Rerun ==
    /\ status # "init"
    /\ ScriptRun(uploaded_file, ano_selecionado, uf_selecionada,
                 tipo_acidente_selecionado)

Next == FirstRun \/ ChangeAno \/ ChangeUf \/ ChangeTipo \/ Upload \/ Rerun

Spec == Init /\ [][Next]_vars

SpecColumns == InitColumns /\ [][Next]_vars

SpecTopN == InitTopN /\ [][Next]_vars

SpecBins == InitBins /\ [][Next]_vars

(***************************************************************************)
(* Properties.                                                             *)
(***************************************************************************)
Rendered(n) == n \in DOMAIN out

View == filtered_df.rows

Base == df.rows

\* The sum of the counts of a distribution
Total(dist) == SumSeq(Eager([i \in DOMAIN dist |-> dist[i].n]))

\* The row without the columns the script writes after the filters
AsLoaded(r) == [c \in df.columns \ {"latitude", "longitude"} |-> r[c]]

PassesFilters(r) ==
    /\ ano_selecionado = {} \/ (r.ano # NaN /\ r.ano \in ano_selecionado)
    /\ uf_selecionada = {} \/ (r.uf # "" /\ r.uf \in uf_selecionada)
    /\ tipo_acidente_selecionado = {}
       \/ (r.tipo_acidente # "" /\ r.tipo_acidente \in tipo_acidente_selecionado)

\* C1: after every run that reaches the filters, the view holds exactly the
\* rows of the base table that pass every non-empty selection, in their
\* order; it is no longer than the base table and as long when the three
\* selections are empty.  The view is a function of the base table and the
\* current selections alone.
C1_ViewIsFilteredBase ==
    WidgetsLive =>
        /\ [i \in DOMAIN View |-> AsLoaded(View[i])]
             = [i \in DOMAIN SelectSeq(Base, PassesFilters) |->
                  AsLoaded(SelectSeq(Base, PassesFilters)[i])]
        /\ Len(View) <= Len(Base)
        /\ (ano_selecionado = {} /\ uf_selecionada = {}
            /\ tipo_acidente_selecionado = {}) => Len(View) = Len(Base)

C1_Witness ==
    /\ WidgetsLive
    /\ ano_selecionado # {} /\ uf_selecionada # {} /\ tipo_acidente_selecionado # {}
    /\ Len(View) = 1
    /\ Len(Base) = 2
    /\ \E i \in DOMAIN Base : Base[i].ano = NaN

\* The table load_data() returned, or the one made from the upload
Loaded ==
    IF loadRaises THEN DeriveDateColumns(uploaded_file[1]) ELSE DeriveDateColumns(data)

\* C2: after every run that reaches the dashboard the object df is the
\* table as loaded, and so is the cached result of load_data(): the column
\* writes, the bins and the export of the run went to the view.
C2_BaseUnchanged ==
    WidgetsLive =>
        /\ df = Loaded
        /\ cache # <<>> => cache[1] = Loaded

C2_Witness ==
    /\ status = "done"
    /\ ano_selecionado = {} /\ uf_selecionada = {} /\ tipo_acidente_selecionado = {}
    /\ Len(Base) = 2
    /\ {"hora", "faixa_etaria", "idade_veiculo"} \subseteq filtered_df.columns
    /\ Rendered("csv")
    /\ cache # <<>>

\* C3: the day-of-week distribution has the seven days of dias_ordem, in
\* that order, each with the number of rows of the view on that day (0
\* when there is none).
C3_SevenDays ==
    Rendered("dias_df") =>
        /\ Len(out.dias_df) = 7
        /\ \A i \in 1..7 :
              /\ out.dias_df[i].k = dias_ordem[i]
              /\ out.dias_df[i].n = Count(Col(View, "dia_semana"), dias_ordem[i])

C3_Witness ==
    /\ Rendered("dias_df")
    /\ Len(View) = 2
    /\ out.dias_df[1].n = 0
    /\ out.dias_df[7].n = 1

\* C4 as claimed: the hourly distribution has one entry for each hour
\* 0..23, in ascending order, with count 0 for an hour without rows.
C4_Claim_24Hours ==
    Rendered("horas_df") =>
        /\ Len(out.horas_df) = 24
        /\ \A h \in 0..23 :
              /\ out.horas_df[h + 1].k = h
              /\ out.horas_df[h + 1].n = Count(Col(View, "hora"), h)

\* The bin of x with intervals closed on the left: [b1, b2), [b2, b3), ...;
\* the last edge, which is in the declared range, is put in the last bin
LeftClosedBin(x, bins, labels) ==
    IF x = bins[Len(bins)] THEN labels[Len(labels)]
    ELSE IF x # NaN /\ \E i \in DOMAIN labels : bins[i] <= x /\ x < bins[i + 1]
    THEN labels[CHOOSE i \in DOMAIN labels : bins[i] <= x /\ x < bins[i + 1]]
    ELSE ""

\* C5 as claimed: an age has the band of the interval, closed on the left,
\* that holds it (0 the first band, 18 the second), an age outside 0..100
\* none; the same for the vehicle ages, by their counts.
C5_Claim_LeftClosedBins ==
    /\ "faixa_etaria" \in filtered_df.columns =>
          \A i \in DOMAIN View :
             View[i].faixa_etaria = LeftClosedBin(View[i].idade, idade_bins, idade_labels)
    /\ Rendered("idade_veiculo_df") =>
          \A e \in Range(out.idade_veiculo_df) :
             e.n = Cardinality({i \in DOMAIN View :
                      LeftClosedBin(View[i].idade_veiculo, veiculo_bins,
                                    veiculo_labels) = e.k})

\* C6 as claimed: a run that ends in the loading part shows an st.error
\* diagnostic and the uploader, renders nothing of the dashboard and does
\* not end in an exception.
C6_Claim_LoadFailure ==
    status \in {"stopped", "load_crashed"} =>
        /\ \E i \in DOMAIN messages :
              messages[i] \in {"error: Erro ao carregar os dados",
                               "error: A coluna 'data_inversa' nao foi encontrada"}
        /\ "file_uploader" \in Range(messages)
        /\ "exception" \notin Range(messages)
        /\ out = <<>>

\* C7: a run whose view has no rows ends normally; its totals are 0, the
\* state with most accidents is "N/A", the distributions and top lists
\* are empty or all zero and the cross-tabulation has no rows and no
\* columns.
C7_EmptyView ==
    (WidgetsLive /\ View = <<>>) =>
        /\ status = "done"
        /\ "exception" \notin Range(messages)
        /\ out.total_acidentes = 0 /\ out.total_mortos = 0 /\ out.total_feridos = 0
        /\ out.estado_mais_acidentes = "N/A"
        /\ \A n \in {"acidentes_por_mes", "horas_df", "map_data", "top_ufs",
                     "top_municipios", "top_brs", "top_causas", "top_tipos",
                     "class_acidentes", "cond_meteo", "sexo_df", "veiculos_df",
                     "estado_fisico_df"} \cap DOMAIN out : out[n] = <<>>
        /\ \A n \in {"dias_df", "faixa_etaria_df", "idade_veiculo_df"} \cap DOMAIN out :
              \A e \in Range(out[n]) : e.n = 0
        /\ out.cross_fase_tipo_filtered.index = {}
        /\ out.cross_fase_tipo_filtered.columns = <<>>

C7_Witness ==
    /\ WidgetsLive
    /\ View = <<>>
    /\ Len(Base) = 2
    /\ uf_selecionada # {} /\ tipo_acidente_selecionado # {}
    /\ Rendered("cross_fase_tipo_filtered")

\* The distributions of C8 that the run produced, with the column of each
DistributionsOf ==
    {d \in {<<"dias_df", "dia_semana">>, <<"class_acidentes", "classificacao_acidente">>,
            <<"cond_meteo", "condicao_metereologica">>, <<"sexo_df", "sexo">>,
            <<"estado_fisico_df", "estado_fisico">>} : Rendered(d[1])}

NoMissing(c) == \A i \in DOMAIN View : View[i][c] # ""

\* C8 as claimed: over a view with rows, the counts of a distribution
\* whose column has no missing value add up to the number of rows.
C8_Claim_CountsSum ==
    \A d \in DistributionsOf :
       (View # <<>> /\ NoMissing(d[2])) => Total(out[d[1]]) = Len(View)

\* C8, amended: the same, for the day of the week only when every value of
\* the column is one of the seven names of dias_ordem.
C8_CountsSum ==
    \A d \in DistributionsOf :
       (/\ View # <<>>
        /\ NoMissing(d[2])
        /\ d[1] = "dias_df" => \A i \in DOMAIN View : View[i].dia_semana \in Range(dias_ordem))
       => Total(out[d[1]]) = Len(View)

C8_Witness ==
    /\ status = "done"
    /\ Len(View) = 2
    /\ View[1].classificacao_acidente # View[2].classificacao_acidente
    /\ \A d \in DistributionsOf : NoMissing(d[2])
    /\ Cardinality(DistributionsOf) = 5
    /\ Total(out.dias_df) = 2

\* The top-10 lists the run produced, with the column of each
Top10sOf ==
    {d \in {<<"top_ufs", "uf">>, <<"top_municipios", "municipio">>,
            <<"top_causas", "causa_principal">>, <<"top_tipos", "tipo_acidente">>,
            <<"veiculos_df", "tipo_veiculo">>} : Rendered(d[1])}

\* The list top holds the n most frequent of the values vals (none of
\* them missing), most frequent first, each with its count
IsTopN(top, vals, n) ==
    /\ Len(top) = Min2(n, Cardinality(Range(vals)))
    /\ \A i \in DOMAIN top : top[i].k \in Range(vals) /\ top[i].n = Count(vals, top[i].k)
    /\ \A i, j \in DOMAIN top : i < j => top[i].n >= top[j].n /\ top[i].k # top[j].k
    /\ \A x \in Range(vals) \ {top[i].k : i \in DOMAIN top} :
          \A i \in DOMAIN top : top[i].n >= Count(vals, x)

\* C9: every top-10 list has min(10, number of distinct non-missing values
\* of its column in the view) entries, with their counts, in descending
\* order of count, and no value left out is more frequent than one listed.
C9_TopN ==
    /\ \A d \in Top10sOf : IsTopN(out[d[1]], DropNa(Col(View, d[2]), ""), 10)
    /\ Rendered("top_brs") => IsTopN(out.top_brs, DropNa(Col(View, "br"), NaN), 10)

C9_Witness ==
    /\ status = "done"
    /\ Cardinality(Range(Col(View, "municipio"))) > 10
    /\ Len(out.top_municipios) = 10
    /\ out.top_municipios[1].n = 2
    /\ out.top_municipios[10].n = 1
    /\ out.top_municipios[1].k = View[Len(View)].municipio
    /\ View[10].municipio \notin {out.top_municipios[i].k : i \in 1..10}
    /\ Len(out.top_brs) = 10 /\ Len(out.top_ufs) = 2

\* C10 as claimed: every run that reaches line 250 produces the
\* cross-tabulation; its columns are the (up to) five most frequent
\* accident types and each cell counts the rows of that phase and type.
C10_Claim_CrossTab ==
    (WidgetsLive /\ Rendered("cond_meteo")) =>
        /\ Rendered("cross_fase_tipo_filtered")
        /\ IsTopN([i \in DOMAIN out.cross_fase_tipo_filtered.columns |->
                     [k |-> out.cross_fase_tipo_filtered.columns[i],
                      n |-> Count(Col(View, "tipo_acidente"),
                                  out.cross_fase_tipo_filtered.columns[i])]],
                  DropNa(Col(View, "tipo_acidente"), ""), 5)
        /\ \A f \in out.cross_fase_tipo_filtered.index :
           \A t \in Range(out.cross_fase_tipo_filtered.columns) :
              out.cross_fase_tipo_filtered.cell[<<f, t>>]
                = Cardinality({i \in DOMAIN View :
                                  View[i].fase_dia = f /\ View[i].tipo_acidente = t})

====
